---- MODULE Spec2Model ----
(***************************************************************************)
(* Lead-submission pipeline of the landing-page server (server.js):        *)
(* JSON body parser -> per-IP rate limiter -> POST /api/lead (required-    *)
(* field check, sanitizer, id generator, append to data/leads.jsonl).      *)
(* Beside it: the submit handler of the lead form (script-advanced.js),    *)
(* debounce() of the page scripts, and the server's second variant, run    *)
(* side by side with the first.                                            *)
(*                                                                         *)
(* A JavaScript string is a sequence of one-character strings.  The Polish *)
(* diacritics of the three error messages are written without their marks  *)
(* (the messages are opaque constants of the model).                       *)
(***************************************************************************)
EXTENDS Integers, Sequences, FiniteSets, TLC

VARIABLES
    clock,        \* Date.now(), epoch milliseconds
    lastHitByIp,  \* the limiter's Map: client identifier -> time of last admitted request
    dirExists,    \* whether <cwd>/data exists
    file,         \* data/leads.jsonl, one element per line
    pending,      \* fs.appendFile calls whose callback has not run yet
    nreq,         \* number of requests received so far
    log,          \* per request, in order of arrival: identifier, time, limiter
                  \* decision and the responses sent
    done,         \* the request answered last
    sx, sn, sy, sz, spc,  \* sanitizer harness: input, max, safe(x), safe(safe(x)), position
    form,         \* the lead form of the page and its submit handler
    deb,          \* a function wrapped by debounce(), its timers and its runs
    twin          \* the two variants of the server fed the same requests

vars == <<clock, lastHitByIp, dirExists, file, pending, nreq, log, done,
          sx, sn, sy, sz, spc, form, deb, twin>>

serverVars == <<clock, lastHitByIp, dirExists, file, pending, nreq, log, done>>
safeVars   == <<sx, sn, sy, sz, spc>>
\* what the steps of one part leave alone
besideServer == <<safeVars, form, deb, twin>>
besideSafe   == <<serverVars, form, deb, twin>>
besideForm   == <<serverVars, safeVars, deb, twin>>
besideDeb    == <<serverVars, safeVars, form, twin>>
besideTwin   == <<serverVars, safeVars, form, deb>>

\* ---------------------------------------------------------------- bounds
MaxReqs   == 2      \* requests per pipeline run
MaxWide   == 1      \* requests per single-request run
MaxClock  == 6001   \* the clock stops advancing here
MaxStrLen == 4      \* length of the enumerated sanitizer inputs
MaxN      == 4      \* largest max length tried by the sanitizer harness
MaxSubs   == 3      \* submit events per run of the form
MaxCalls  == 3      \* calls of the debounced function per run
MaxTwin   == 2      \* requests fed to the pair of variants
MaxDebClock == 900  \* the clock of the debounce runs stops here

\* ------------------------------------------------------- program constants
RATE_WINDOW  == 3000
DEBOUNCE_DELAY == 300
MAX_INDUSTRY == 80
MAX_PROBLEM  == 120
MAX_TOOLS    == 200
MAX_MESSAGE  == 2000
MAX_CONTACT  == 120
MAX_WEBSITE  == 200

TooFastMsg  == "Za szybko. Sprobuj za chwile."
MissingMsg  == "Uzupelnij: branza, problem, opis, kontakt."
ServerErrMsg == "Blad serwera. Sprobuj pozniej."

\* ------------------------------------------------------------ JS strings
Min(a, b) == IF a < b THEN a ELSE b
Max(a, b) == IF a > b THEN a ELSE b

Rep(c, n) == [i \in 1..n |-> c]

\* the characters \s matches and trim() strips (space, tab, line feed here)
IsSpace(c) == c \in {" ", "\t", "\n"}

\* String.prototype.replace(/\s+/g, " "): every maximal run of whitespace
\* becomes one space
CollapseWs(s) ==
    LET idx  == [i \in 1..Len(s) |-> i]
        kept == SelectSeq(idx, LAMBDA i : ~IsSpace(s[i]) \/ i = 1 \/ ~IsSpace(s[i-1]))
    IN  [j \in 1..Len(kept) |-> IF IsSpace(s[kept[j]]) THEN " " ELSE s[kept[j]]]

\* mutant: trimStart() in place of trim()
Trim_Start(s) ==
    IF \A i \in 1..Len(s) : IsSpace(s[i]) THEN <<>>
    ELSE SubSeq(s, CHOOSE i \in 1..Len(s) :
                       ~IsSpace(s[i]) /\ \A j \in 1..(i - 1) : IsSpace(s[j]),
                Len(s))

\* String.prototype.trim()
Trim(s) ==
    LET nonsp == {i \in 1..Len(s) : ~IsSpace(s[i])}
    IN  IF nonsp = {} THEN <<>>
        ELSE LET lo == CHOOSE i \in nonsp : \A j \in nonsp : i <= j
                 hi == CHOOSE i \in nonsp : \A j \in nonsp : i >= j
             IN  SubSeq(s, lo, hi)

Slice0_OneMore(s, end) == SubSeq(s, 1, Min(end + 1, Len(s)))

\* String.prototype.slice(0, end)
Slice0(s, end) ==
    LET e == IF end < 0 THEN Max(Len(s) + end, 0) ELSE Min(end, Len(s))
    IN  SubSeq(s, 1, e)

\* ------------------------------------------------------------ JSON values
\* t: "undef" (property absent), "null", "str", "num", "bool", "arr", "obj"
JUndef   == [t |-> "undef", s |-> <<>>, n |-> 0, a |-> <<>>]
JNull    == [t |-> "null",  s |-> <<>>, n |-> 0, a |-> <<>>]
JStr(s)  == [t |-> "str",   s |-> s,    n |-> 0, a |-> <<>>]
JNum(n)  == [t |-> "num",   s |-> <<>>, n |-> n, a |-> <<>>]
JBool(b) == [t |-> "bool",  s |-> <<>>, n |-> IF b THEN 1 ELSE 0, a |-> <<>>]
JArr(a)  == [t |-> "arr",   s |-> <<>>, n |-> 0, a |-> a]   \* array of strings
JObj     == [t |-> "obj",   s |-> <<>>, n |-> 0, a |-> <<>>]

Digit(d) == <<"0", "1", "2", "3", "4", "5", "6", "7", "8", "9",
              "a", "b", "c", "d", "e", "f">>[d + 1]

\* Number.prototype.toString(radix) of a non-negative integer
RECURSIVE NumToString(_, _)
NumToString(n, radix) ==
    IF n < radix THEN <<Digit(n)>>
    ELSE NumToString(n \div radix, radix) \o <<Digit(n % radix)>>

\* Array.prototype.join(",") of an array of strings
RECURSIVE Join(_)
Join(a) ==
    IF a = <<>> THEN <<>>
    ELSE IF Len(a) = 1 THEN a[1]
    ELSE a[1] \o <<",">> \o Join(Tail(a))

\* JavaScript truthiness: !v is ~Truthy(v)
Truthy(v) ==
    CASE v.t = "undef" -> FALSE
      [] v.t = "null"  -> FALSE
      [] v.t = "str"   -> v.s # <<>>
      [] v.t = "num"   -> v.n # 0
      [] v.t = "bool"  -> v.n = 1
      [] OTHER         -> TRUE

\* String(v ?? "")
ToStr(v) ==
    CASE v.t = "undef" -> <<>>
      [] v.t = "null"  -> <<>>
      [] v.t = "str"   -> v.s
      [] v.t = "num"   -> NumToString(v.n, 10)
      [] v.t = "bool"  -> IF v.n = 1 THEN <<"t", "r", "u", "e">>
                                      ELSE <<"f", "a", "l", "s", "e">>
      [] v.t = "arr"   -> Join(v.a)
      [] OTHER         -> <<"[", "o", "b", "j", "e", "c", "t", " ",
                            "O", "b", "j", "e", "c", "t", "]">>

\* const safe = (v, max = 2000) =>
\*     String(v ?? "").replace(/\s+/g, " ").trim().slice(0, max)
safe(v, max) == Slice0(Trim(CollapseWs(ToStr(v))), max)

\* ------------------------------------------------- sanitizer harness
Alphabet == {"a", "b", " ", "\t"}

RECURSIVE StringsUpTo(_)
StringsUpTo(n) ==
    IF n = 0 THEN {<<>>}
    ELSE LET shorter == StringsUpTo(n - 1)
         IN  shorter \cup {Append(s, c) : s \in {t \in shorter : Len(t) = n - 1},
                                          c \in Alphabet}

SafeInputs ==
    {JStr(s) : s \in StringsUpTo(MaxStrLen)}
        \cup {JUndef, JNull, JNum(0), JNum(42), JBool(TRUE), JBool(FALSE), JObj,
              JArr(<<>>), JArr(<<<<"a">>, <<" ", "b">>>>)}

SafeIdle == /\ sx = JUndef /\ sn = 0 /\ sy = <<>> /\ sz = <<>> /\ spc = "idle"

SafeStart ==
    /\ sx \in SafeInputs
    /\ sn \in 0..MaxN
    /\ sy = <<>>
    /\ sz = <<>>
    /\ spc = "in"

SafeOnce ==
    /\ spc = "in"
    /\ sy' = safe(sx, sn)
    /\ spc' = "once"
    /\ UNCHANGED <<sx, sn, sz>>

SafeTwice ==
    /\ spc = "once"
    /\ sz' = safe(JStr(sy), sn)
    /\ spc' = "twice"
    /\ UNCHANGED <<sx, sn, sy>>

\* ------------------------------------------------------------ requests
Str_api_    == <<"/", "a", "p", "i", "/">>
Str_lead    == <<"l", "e", "a", "d">>
PathLead    == Str_api_ \o Str_lead                       \* "/api/lead"
PathLeadUp  == <<"/", "A", "P", "I", "/">> \o Str_lead    \* "/API/lead"
PathApiX    == Str_api_ \o <<"x">>                        \* "/api/x"
PathHealth  == <<"/", "h", "e", "a", "l", "t", "h">>      \* "/health"
PathRoot    == <<"/">>
Unknown     == <<"u", "n", "k", "n", "o", "w", "n">>      \* "unknown"

\* mutant: every path counts as an /api/ path
StartsWith_Any(s, p) == TRUE

\* String.prototype.startsWith
StartsWith(s, p) == Len(s) >= Len(p) /\ SubSeq(s, 1, Len(p)) = p

UpperCs == <<"A", "P", "I", "L", "E", "D", "H", "T", "X">>
LowerCs == <<"a", "p", "i", "l", "e", "d", "h", "t", "x">>
LowerChar(c) ==
    IF \E i \in 1..Len(UpperCs) : UpperCs[i] = c
    THEN LowerCs[CHOOSE i \in 1..Len(UpperCs) : UpperCs[i] = c]
    ELSE c

\* Express route matching with its defaults: case-insensitive, an optional
\* trailing slash
RouteMatches(path, route) ==
    LET p == IF Len(path) > 1 /\ path[Len(path)] = "/"
             THEN SubSeq(path, 1, Len(path) - 1) ELSE path
    IN  [i \in 1..Len(p) |-> LowerChar(p[i])] = route

\* mutant: the forwarded header is ignored
ClientId_Socket(req) == IF Truthy(req.remote) THEN req.remote.s ELSE Unknown

\* req.headers["x-forwarded-for"]?.split(",")[0]?.trim()
\*     || req.socket.remoteAddress || "unknown"
ClientId(req) ==
    LET h     == req.xff.s
        comma == {i \in 1..Len(h) : h[i] = ","}
        first == IF comma = {} THEN h
                 ELSE SubSeq(h, 1, (CHOOSE i \in comma : \A j \in comma : i <= j) - 1)
        fwd   == IF req.xff.t = "undef" THEN <<>> ELSE Trim(first)
    IN  IF fwd # <<>> THEN fwd
        ELSE IF Truthy(req.remote) THEN req.remote.s
        ELSE Unknown

\* ------------------------------------------------------------ responses
JsonErr(status, msg) ==
    [status |-> status, type |-> "json", ok |-> "false", error |-> msg, state |-> ""]
JsonOk ==
    [status |-> 200, type |-> "json", ok |-> "true", error |-> "", state |-> ""]
\* res.sendFile, and the page Express's default error handler renders
Html(status) ==
    [status |-> status, type |-> "html", ok |-> "none", error |-> "", state |-> ""]
HealthResp ==
    [status |-> 200, type |-> "json", ok |-> "none", error |-> "", state |-> "running"]

\* ----------------------------------------------------- POST /api/lead
RequiredFields == {"industry", "problem", "message", "contact"}

\* mutant: the check forgets the message field
FailsValidation_NoMessage(body) ==
    \/ ~Truthy(body.industry)
    \/ ~Truthy(body.problem)
    \/ ~Truthy(body.contact)

\* if (!industry || !problem || !message || !contact)
FailsValidation(body) ==
    \/ ~Truthy(body.industry)
    \/ ~Truthy(body.problem)
    \/ ~Truthy(body.message)
    \/ ~Truthy(body.contact)

\* "lead_" + Math.random().toString(16).slice(2) + Date.now().toString(16)
generateId(rnd, now) ==
    <<"l", "e", "a", "d", "_">> \o rnd \o NumToString(now, 16)

BuildLead(body, rnd, now) ==
    [ id              |-> generateId(rnd, now),
      createdAt       |-> now,
      industry        |-> safe(body.industry, MAX_INDUSTRY),
      problem         |-> safe(body.problem, MAX_PROBLEM),
      tools           |-> safe(body.tools, MAX_TOOLS),
      message         |-> safe(body.message, MAX_MESSAGE),
      contact         |-> safe(body.contact, MAX_CONTACT),
      website         |-> safe(body.website, MAX_WEBSITE),
      wantsMvp        |-> Truthy(body.wantsMvp),
      wantsAutomation |-> Truthy(body.wantsAutomation) ]

\* ------------------------------------------------------------ rate limiter
\* mutant: the latest time of any identifier is used
LimiterLast_Any(map, ip) ==
    IF DOMAIN map = {} THEN 0
    ELSE CHOOSE v \in {map[k] : k \in DOMAIN map} : \A k \in DOMAIN map : map[k] <= v

\* mutant: the stored time is never read
LimiterLast_Zero(map, ip) == 0

\* const last = lastHitByIp.get(ip) || 0;
LimiterLast(map, ip) == IF ip \in DOMAIN map /\ map[ip] # 0 THEN map[ip] ELSE 0

\* mutant: the window compared with <= instead of <
LimiterRejects_Le(map, ip, now) == now - LimiterLast(map, ip) <= RATE_WINDOW

\* if (now - last < 3000) return res.status(429)...
LimiterRejects(map, ip, now) == now - LimiterLast(map, ip) < RATE_WINDOW

\* mutant: the map is replaced by one that holds the new entry only
LimiterRecord_Only(map, ip, now) == [k \in {ip} |-> now]

\* mutant: the update of a request still in progress is not seen
LimiterRecord_Lost(map, ip, now) == map

\* lastHitByIp.set(ip, now)
LimiterRecord(map, ip, now) ==
    [k \in DOMAIN map \cup {ip} |-> IF k = ip THEN now ELSE map[k]]

\* mutant: the time of a rejected request is recorded too
Limiter_RecordAlways(map, ip, now) == LimiterRecord(map, ip, now)

\* the map after the limiter has decided on a request of ip at time now
Limiter(map, ip, now) ==
    IF LimiterRejects(map, ip, now) THEN map ELSE LimiterRecord(map, ip, now)

\* ------------------------------------------------------------ inputs
EmptyBody ==
    [industry |-> JUndef, problem |-> JUndef, tools |-> JUndef, message |-> JUndef,
     contact |-> JUndef, website |-> JUndef, wantsMvp |-> JUndef,
     wantsAutomation |-> JUndef]

ValidBody ==
    [EmptyBody EXCEPT !.industry = JStr(<<" ", " ", "a", " ", "\t", " ", "b", " ">>),
                      !.problem  = JStr(<<"p">>),
                      !.message  = JStr(<<"m", "\n", "m">>),
                      !.contact  = JStr(<<"c">>)]

\* bodies of the pipeline runs
Bodies ==
    { EmptyBody,
      ValidBody,
      \* a required field made of whitespace only
      [ValidBody EXCEPT !.industry = JStr(<<" ">>)] }

\* bodies of the single-request runs: every field longer than its maximum,
\* fields that are not strings, fields that are empty in one way or another
WideBodies ==
    Bodies \cup
    { [ industry |-> JStr(Rep("a", MAX_INDUSTRY - 1) \o <<" ", "b">>),
        problem  |-> JStr(Rep("a", MAX_PROBLEM + 1)),
        tools    |-> JStr(Rep("a", MAX_TOOLS + 1)),
        message  |-> JStr(Rep("a", MAX_MESSAGE + 1)),
        contact  |-> JStr(Rep("a", MAX_CONTACT + 1)),
        website  |-> JStr(Rep("a", MAX_WEBSITE + 1)),
        wantsMvp |-> JBool(TRUE), wantsAutomation |-> JBool(FALSE) ],
      [ValidBody EXCEPT !.industry = JNum(5), !.problem = JBool(TRUE),
                        !.message = JObj, !.contact = JArr(<<<<"a">>, <<"b">>>>),
                        !.website = JNull, !.wantsAutomation = JNum(1)],
      [ValidBody EXCEPT !.industry = JUndef],
      [ValidBody EXCEPT !.message = JNull, !.tools = JStr(<<"t">>)],
      [ValidBody EXCEPT !.problem = JStr(<<>>)],
      [ValidBody EXCEPT !.contact = JNum(0)],
      [ValidBody EXCEPT !.problem = JBool(FALSE)],
      [ValidBody EXCEPT !.contact = JArr(<<>>), !.wantsMvp = JStr(<<"n", "o">>)],
      [ValidBody EXCEPT !.message = JStr(<<"\t", "\n">>), !.website = JStr(<<" ", "w">>)] }

Direct  == [xff |-> JUndef, remote |-> JStr(<<"9">>)]
Proxied == [xff |-> JStr(<<" ", "7", " ", ",", "8">>), remote |-> JStr(<<"9">>)]
NoAddr  == [xff |-> JStr(<<" ", ",", "7">>), remote |-> JUndef]
\* an empty first entry in front of a proxy's: the socket address counts
Fallback == [xff |-> JStr(<<",", "7">>), remote |-> JStr(<<"9">>)]
Headers == {Direct, Proxied}

Req(method, path, h, parse, body) ==
    [method |-> method, path |-> path, xff |-> h.xff, remote |-> h.remote,
     parse |-> parse, body |-> body]

\* parse: what express.json makes of the request body: "ok" (parsed, or no
\* JSON body to parse), "malformed" (not JSON), "toolarge" (over 200kb)
Requests ==
    {Req("POST", PathLead, h, "ok", b) : h \in Headers, b \in Bodies}
        \cup {Req("POST", PathLead, Direct, "malformed", EmptyBody)}
        \cup {Req("GET", PathApiX, NoAddr, "ok", EmptyBody),
              Req("GET", PathApiX, Fallback, "ok", EmptyBody),
              Req("GET", PathHealth, Direct, "ok", EmptyBody)}
        \cup {Req("POST", PathLeadUp, Direct, "ok", ValidBody)}

WideRequests ==
    {Req("POST", PathLead, Direct, "ok", b) : b \in WideBodies}
        \cup {Req("POST", PathLead, Direct, k, EmptyBody) : k \in {"malformed", "toolarge"}}

\* hex digits of Math.random(): one value in the pipeline runs (two requests
\* may draw the same), two in the single-request runs
Rands     == {<<"8">>}
WideRands == {<<"8">>, <<"8", "1">>}
Deltas == {2999, 3000}                \* clock advances between two events

NoRequest == Req("", <<>>, [xff |-> JUndef, remote |-> JUndef], "ok", EmptyBody)

\* ------------------------------------------------------------ the server
ServerIdle ==
    /\ clock = 0 /\ lastHitByIp = <<>> /\ dirExists = FALSE /\ file = <<>>
    /\ pending = {} /\ nreq = 0 /\ log = <<>> /\ done = [rid |-> 0, req |-> NoRequest]

\* Date.now() when the server starts: the epoch itself (a clock that was
\* never set) or a later time
StartClocks == {0, RATE_WINDOW + 1}

ServerInit ==
    /\ clock \in StartClocks
    /\ lastHitByIp = <<>>
    /\ dirExists = FALSE
    /\ file = <<>>
    /\ pending = {}
    /\ nreq = 0
    /\ log = <<>>
    /\ done = [rid |-> 0, req |-> NoRequest]

\* history kept per request: the identifier, the arrival time, the limiter's
\* decision ("none" when the limiter never ran, "bypass" outside /api/),
\* the identifier's entry in the map on arrival (NoEntry when it had none),
\* the outcome of the append, and the responses sent
NoEntry == -1
LogEntry(ip, gate, sent) ==
    [cid |-> ip, at |-> clock, gate |-> gate,
     prior |-> IF ip \in DOMAIN lastHitByIp THEN lastHitByIp[ip] ELSE NoEntry,
     fs |-> "none", sent |-> sent]
Sent(resp, cause) == [resp |-> resp, cause |-> cause]

\* a response sent while the request is being handled
Answer(rid, req, ip, gate, resp, cause) ==
    /\ log'  = Append(log, LogEntry(ip, gate, <<Sent(resp, cause)>>))
    /\ done' = [rid |-> rid, req |-> req]

\* One request through the middleware chain of server.js, up to the point
\* where it is answered or its fs.appendFile call is issued.
HandleRequest(req, rnd, mkdirOk) ==
    /\ nreq' = nreq + 1
    /\ UNCHANGED <<clock, file>>
    /\ LET rid    == nreq + 1
           api    == StartsWith(req.path, Str_api_)
           ip     == IF api THEN ClientId(req) ELSE <<>>
           reject == api /\ LimiterRejects(lastHitByIp, ip, clock)
           gate   == IF ~api THEN "bypass" ELSE IF reject THEN "reject" ELSE "admit"
       IN  IF req.parse # "ok"
           THEN \* express.json calls next(err): no middleware of the file runs
                /\ Answer(rid, req, <<>>, "none",
                          Html(IF req.parse = "toolarge" THEN 413 ELSE 400), "parser")
                /\ UNCHANGED <<lastHitByIp, dirExists, pending>>
           ELSE IF reject
           THEN /\ Answer(rid, req, ip, gate, JsonErr(429, TooFastMsg), "limiter")
                /\ lastHitByIp' = Limiter(lastHitByIp, ip, clock)
                /\ UNCHANGED <<dirExists, pending>>
           ELSE /\ lastHitByIp' = IF api THEN Limiter(lastHitByIp, ip, clock)
                                         ELSE lastHitByIp
                /\ IF req.method = "POST" /\ RouteMatches(req.path, PathLead)
                   THEN IF FailsValidation(req.body)
                        THEN /\ Answer(rid, req, ip, gate, JsonErr(400, MissingMsg), "missing")
                             /\ UNCHANGED <<dirExists, pending>>
                        ELSE IF ~dirExists /\ ~mkdirOk
                        THEN \* fs.mkdirSync throws: Express's default error handler
                             /\ Answer(rid, req, ip, gate, Html(500), "mkdir")
                             /\ UNCHANGED <<dirExists, pending>>
                        ELSE /\ dirExists' = TRUE
                             /\ pending' = pending \cup
                                    {[rid |-> rid, req |-> req, result |-> "queued",
                                      line |-> [rid |-> rid,
                                                lead |-> BuildLead(req.body, rnd, clock)]]}
                             /\ log' = Append(log, [LogEntry(ip, gate, <<>>) EXCEPT !.fs = "queued"])
                             /\ UNCHANGED done
                   ELSE IF req.method = "GET" /\ RouteMatches(req.path, PathHealth)
                   THEN /\ Answer(rid, req, ip, gate, HealthResp, "health")
                        /\ UNCHANGED <<dirExists, pending>>
                   ELSE \* express.static, then the index.html fallback
                        /\ Answer(rid, req, ip, gate, Html(200), "static")
                        /\ UNCHANGED <<dirExists, pending>>

\* mutant: the line is written twice
AppendWrite_Twice(file_, line) == Append(Append(file_, line), line)

\* mutant: fs.writeFile in place of fs.appendFile
AppendWrite_Overwrite(file_, line) == <<line>>

\* mutant: the file is rewritten with the new line first
AppendWrite_Prepend(file_, line) == <<line>> \o file_

\* fs.appendFile(file, JSON.stringify(lead) + "\n", ...): the write itself
AppendWrite(file_, line) == Append(file_, line)

FsAppend(p, ok) ==
    /\ p \in pending
    /\ p.result = "queued"
    /\ file' = IF ok THEN AppendWrite(file, p.line) ELSE file
    /\ pending' = (pending \ {p}) \cup
                      {[p EXCEPT !.result = IF ok THEN "written" ELSE "failed"]}
    /\ log' = [log EXCEPT ![p.rid].fs = IF ok THEN "written" ELSE "failed"]
    /\ UNCHANGED <<clock, lastHitByIp, dirExists, nreq, done>>

\* mutant: the callback ignores err
CallbackResponse_IgnoreErr(result) == Sent(JsonOk, "stored")

\* (err) => { if (err) { ... return res.status(500).json(...) } res.json({ ok: true }) }
CallbackResponse(result) ==
    IF result = "failed" THEN Sent(JsonErr(500, ServerErrMsg), "append")
                         ELSE Sent(JsonOk, "stored")

\* the callback of fs.appendFile
AppendCallback(p) ==
    /\ p \in pending
    /\ p.result # "queued"
    /\ pending' = pending \ {p}
    /\ log' = [log EXCEPT ![p.rid].sent = Append(@, CallbackResponse(p.result))]
    /\ done' = [rid |-> p.rid, req |-> p.req]
    /\ UNCHANGED <<clock, lastHitByIp, dirExists, file, nreq>>

Tick(d) ==
    /\ clock + d <= MaxClock
    /\ clock' = clock + d
    /\ UNCHANGED <<lastHitByIp, dirExists, file, pending, nreq, log, done>>

\* ------------------------------------------------------- the lead form
\* (script-advanced.js; the texts are written without their diacritics)
SendingLabel == "Wysylam..."
SubmitLabel  == "Wyslij zapytanie"
ConfirmText  == "Mam. Odpisze w 24h. Jesli zostawiles telefon - oddzwonie."
ErrorPrefix  == "Nie poszlo: "
GenericMsg   == "Blad wysylki"
LaterMsg     == "sprobuj pozniej."
FetchFailed  == "Failed to fetch"       \* the browser's message of a rejected fetch

\* a response body: a JSON object (error: its error text, "" when it has
\* none) or text that is not JSON (the page of Express's error handler)
JsonBody(error) == [kind |-> "json", error |-> error]
HtmlBody        == [kind |-> "html", error |-> ""]
Response(status, body) == [status |-> status, body |-> body]
NoResponse == Response(0, HtmlBody)

\* what fetch("/api/lead") can resolve to: the answers of server.js, and of
\* whatever stands between the page and it
Responses ==
    { Response(200, JsonBody("")),
      Response(400, JsonBody(MissingMsg)),
      Response(429, JsonBody(TooFastMsg)),
      Response(500, JsonBody(ServerErrMsg)),
      Response(502, JsonBody("")),
      Response(200, HtmlBody),
      Response(400, HtmlBody),
      Response(413, HtmlBody),
      Response(500, HtmlBody) }

\* the messages a rejected fetch carries (err.message; "" when it has none)
RejectMessages == {FetchFailed, ""}

\* Response.ok
IsOk(status) == status >= 200 /\ status <= 299

\* mutant: a body that is not JSON makes the await throw
ParseJson_NoCatch(body) == [failed |-> body.kind # "json", error |-> body.error]

\* await r.json().catch(() => ({}))
ParseJson(body) ==
    [failed |-> FALSE, error |-> IF body.kind = "json" THEN body.error ELSE ""]

\* mutant: the server's text is not used
ThrownMessage_Generic(out) == GenericMsg

\* new Error(out.error || "Blad wysylki")
ThrownMessage(out) == IF out.error # "" THEN out.error ELSE GenericMsg

\* catch (err) { ... }
Caught(f, msg) ==
    [f EXCEPT !.cls = "form-status error",
              !.text = <<ErrorPrefix, IF msg # "" THEN msg ELSE LaterMsg>>]

\* form.reset(); statusEl.className = ...; statusEl.textContent = ...
Succeeded(f) ==
    [f EXCEPT !.fields = "empty", !.cls = "form-status", !.text = <<ConfirmText>>]

\* mutant: the control stays as it is
Finally_Skipped(f) == f

\* finally { submitBtn.disabled = false; submitBtn.textContent = ... }
Finally(f) == [f EXCEPT !.disabled = FALSE, !.label = SubmitLabel]

\* kept next to the form: shown, the submission whose message the status
\* region shows (0 when it is empty), and event, the last thing that happened
FormEvent(kind, id, resp) == [kind |-> kind, id |-> id, resp |-> resp]

FormIdle ==
    form = [disabled |-> FALSE, label |-> SubmitLabel, cls |-> "form-status",
            text |-> <<>>, shown |-> 0, fields |-> "filled", subs |-> {}, nsub |-> 0,
            event |-> FormEvent("load", 0, NoResponse)]

\* the submit listener up to its first await: the status region is emptied,
\* the control disabled, the field values read and the request sent.  The
\* listener runs for every submit event, whatever the state of the control.
FormSubmit ==
    /\ form.nsub < MaxSubs
    /\ form' = [form EXCEPT !.text = <<>>, !.shown = 0, !.cls = "form-status",
                            !.disabled = TRUE, !.label = SendingLabel,
                            !.nsub = @ + 1,
                            !.subs = @ \cup {[id |-> form.nsub + 1, pc |-> "fetch",
                                              resp |-> NoResponse]},
                            !.event = FormEvent("sent", form.nsub + 1, NoResponse)]
    /\ UNCHANGED besideForm

\* fetch resolves: the handler goes on to await r.json()
FetchResolves(s, resp) ==
    /\ s \in form.subs /\ s.pc = "fetch"
    /\ form' = [form EXCEPT !.subs = (@ \ {s}) \cup {[s EXCEPT !.pc = "json", !.resp = resp]},
                            !.event = FormEvent("response", s.id, resp)]
    /\ UNCHANGED besideForm

\* fetch rejects (no connection): catch, then finally
FetchRejects(s, msg) ==
    /\ s \in form.subs /\ s.pc = "fetch"
    /\ form' = [Finally(Caught(form, msg))
                    EXCEPT !.subs = @ \ {s}, !.shown = s.id,
                           !.event = FormEvent("failed", s.id, NoResponse)]
    /\ UNCHANGED besideForm

\* the body has been read: the rest of the try block, catch and finally
JsonSettles(s) ==
    /\ s \in form.subs /\ s.pc = "json"
    /\ LET out  == ParseJson(s.resp.body)
           after == IF out.failed THEN Caught(form, FetchFailed)
                    ELSE IF ~IsOk(s.resp.status) THEN Caught(form, ThrownMessage(out))
                    ELSE Succeeded(form)
       IN  form' = [Finally(after) EXCEPT !.subs = @ \ {s}, !.shown = s.id,
                                          !.event = FormEvent("ended", s.id, s.resp)]
    /\ UNCHANGED besideForm

\* the visitor types into the form
FormType ==
    /\ form.fields = "empty"
    /\ form' = [form EXCEPT !.fields = "filled", !.event = FormEvent("typed", 0, NoResponse)]
    /\ UNCHANGED besideForm

FormNext ==
    \/ FormSubmit
    \/ \E s \in form.subs, resp \in Responses : FetchResolves(s, resp)
    \/ \E s \in form.subs, msg \in RejectMessages : FetchRejects(s, msg)
    \/ \E s \in form.subs : JsonSettles(s)
    \/ FormType

\* ------------------------------------------------------------ debounce
\* (part_000 lines 220-242; the delay is CONFIG.animation.debounceDelay)
DebArgs  == {"x", "y"}               \* arguments of the calls
DebSteps == {100, DEBOUNCE_DELAY}    \* clock advances between two events

\* mutant: the timer is left running
ClearTimeout_Noop(timers, id) == timers

\* clearTimeout(timeoutId): no effect when the timer has run or never was
ClearTimeout(timers, id) == {t \in timers : t.id # id}

\* setTimeout(() => fn.apply(this, args), delay)
SetTimeout(timers, id, args, now) ==
    timers \cup {[id |-> id, due |-> now + DEBOUNCE_DELAY, args |-> args]}

\* timers: the timers of the page that have not run; timeoutId: the
\* variable of the closure (0 for null); kept for the record: the number,
\* time and arguments of the latest call, whether cancel() came after it,
\* and the runs of fn
DebIdle ==
    deb = [now |-> 0, timers |-> {}, timeoutId |-> 0, calls |-> 0, lastAt |-> 0,
           lastArgs |-> "", cancelled |-> FALSE, runs |-> <<>>]

\* debounced(...args)
DebCall(args) ==
    /\ deb.calls < MaxCalls
    /\ deb' = [deb EXCEPT
                 !.timers = SetTimeout(ClearTimeout(deb.timers, deb.timeoutId),
                                       deb.calls + 1, args, deb.now),
                 !.timeoutId = deb.calls + 1,
                 !.calls = @ + 1, !.lastAt = deb.now, !.lastArgs = args,
                 !.cancelled = FALSE]
    /\ UNCHANGED besideDeb

\* debounced.cancel()
DebCancel ==
    /\ deb.calls > 0
    /\ ~deb.cancelled
    /\ deb' = [deb EXCEPT !.timers = ClearTimeout(deb.timers, deb.timeoutId),
                          !.cancelled = TRUE]
    /\ UNCHANGED besideDeb

\* a timer that is due runs its callback (at the due time or later)
DebFire(t) ==
    /\ t \in deb.timers
    /\ deb.now >= t.due
    /\ deb' = [deb EXCEPT
                 !.timers = @ \ {t},
                 !.runs = Append(@, [at |-> deb.now, args |-> t.args, call |-> t.id,
                                     latest |-> deb.calls, latestAt |-> deb.lastAt,
                                     latestArgs |-> deb.lastArgs,
                                     cancelled |-> deb.cancelled])]
    /\ UNCHANGED besideDeb

DebTick(d) ==
    /\ deb.now + d <= MaxDebClock
    /\ deb' = [deb EXCEPT !.now = @ + d]
    /\ UNCHANGED besideDeb

DebNext ==
    \/ \E args \in DebArgs : DebCall(args)
    \/ DebCancel
    \/ \E t \in deb.timers : DebFire(t)
    \/ \E d \in DebSteps : DebTick(d)

\* ------------------------------------------------- the two variants
\* "health": server.js with GET /health (part_001); "plain": the server at
\* the end of part_000.  They differ in the body parsers they register.
Variants == {"health", "plain"}

ContentTypes == {"json", "urlencoded", "text"}

\* mutant: only the variant with /health reads JSON
BodyParsers_JsonInOne(variant) ==
    IF variant = "health" THEN {"json", "urlencoded"} ELSE {}

\* app.use(express.json(...)), app.use(express.urlencoded(...))
BodyParsers(variant) ==
    IF variant = "health" THEN {"json", "urlencoded"} ELSE {"json"}

\* req.body || {} in the handler: the body when a parser of the variant
\* reads its content type, otherwise no field at all
ParsedBody(variant, ctype, body) ==
    IF ctype \in BodyParsers(variant) THEN body ELSE EmptyBody

\* one POST /api/lead through a variant, from the limiter to the response:
\* st is the variant's limiter map and file, fs the fate of the directory
\* and of the append ("ok", "mkdir", "append")
Pipeline(variant, st, rid, h, ctype, body, rnd, now, fs) ==
    LET ip     == ClientId(h)
        fields == ParsedBody(variant, ctype, body)
        map    == Limiter(st.map, ip, now)
    IN  IF LimiterRejects(st.map, ip, now)
        THEN [map |-> map, file |-> st.file, resp |-> JsonErr(429, TooFastMsg)]
        ELSE IF FailsValidation(fields)
        THEN [map |-> map, file |-> st.file, resp |-> JsonErr(400, MissingMsg)]
        ELSE IF fs = "mkdir"
        THEN [map |-> map, file |-> st.file, resp |-> Html(500)]
        ELSE IF fs = "append"
        THEN [map |-> map, file |-> st.file, resp |-> JsonErr(500, ServerErrMsg)]
        ELSE [map |-> map,
              file |-> AppendWrite(st.file, [rid |-> rid, lead |-> BuildLead(fields, rnd, now)]),
              resp |-> JsonOk]

\* bodies a form can send in either encoding: every value a string
TwinBodies ==
    { EmptyBody, ValidBody,
      [ValidBody EXCEPT !.tools = JStr(<<"t">>), !.wantsMvp = JStr(<<"o", "n">>)] }

TwinStart(now) ==
    [now |-> now, n |-> 0, encoded |-> FALSE,
     health |-> [map |-> <<>>, file |-> <<>>, resp |-> Html(0)],
     plain  |-> [map |-> <<>>, file |-> <<>>, resp |-> Html(0)]]

TwinIdle == twin = TwinStart(0)

\* both variants start with the same (empty) map and file at the same time
TwinBegin == \E now \in StartClocks : twin = TwinStart(now)

\* the same request reaches both variants at the same time, with the same
\* random digits and the same fate of the file system
TwinRequest(h, ctype, body, rnd, fs) ==
    /\ twin.n < MaxTwin
    /\ twin' = [twin EXCEPT
                  !.n = @ + 1,
                  !.encoded = @ \/ ctype = "urlencoded",
                  !.health = Pipeline("health", twin.health, twin.n + 1, h, ctype,
                                      body, rnd, twin.now, fs),
                  !.plain  = Pipeline("plain", twin.plain, twin.n + 1, h, ctype,
                                      body, rnd, twin.now, fs)]
    /\ UNCHANGED besideTwin

TwinTick(d) ==
    /\ twin.now + d <= MaxClock
    /\ twin' = [twin EXCEPT !.now = @ + d]
    /\ UNCHANGED besideTwin

TwinNext ==
    \/ \E h \in Headers, ctype \in ContentTypes, body \in TwinBodies, rnd \in Rands,
          fs \in {"ok", "mkdir", "append"} : TwinRequest(h, ctype, body, rnd, fs)
    \/ \E d \in Deltas : TwinTick(d)

\* ------------------------------------------------------------ the runs
Init == ServerInit /\ SafeIdle /\ FormIdle /\ DebIdle /\ TwinIdle

Next ==
    \/ \E req \in Requests, rnd \in Rands, mkdirOk \in BOOLEAN :
           nreq < MaxReqs /\ HandleRequest(req, rnd, mkdirOk) /\ UNCHANGED besideServer
    \/ \E p \in pending, ok \in BOOLEAN : FsAppend(p, ok) /\ UNCHANGED besideServer
    \/ \E p \in pending : AppendCallback(p) /\ UNCHANGED besideServer
    \/ \E d \in Deltas : Tick(d) /\ UNCHANGED besideServer

Spec == Init /\ [][Next]_vars

\* fs.appendFile completes and calls its callback: libuv finishes every
\* queued file operation and the event loop runs every callback that is due
Fairness ==
    /\ WF_vars(\E p \in pending, ok \in BOOLEAN : FsAppend(p, ok) /\ UNCHANGED besideServer)
    /\ WF_vars(\E p \in pending : AppendCallback(p) /\ UNCHANGED besideServer)

LiveSpec == Spec /\ Fairness

\* single-request runs over the wide bodies
FieldNext ==
    \/ \E req \in WideRequests, rnd \in WideRands, mkdirOk \in BOOLEAN :
           nreq < MaxWide /\ HandleRequest(req, rnd, mkdirOk) /\ UNCHANGED besideServer
    \/ \E p \in pending, ok \in BOOLEAN : FsAppend(p, ok) /\ UNCHANGED besideServer
    \/ \E p \in pending : AppendCallback(p) /\ UNCHANGED besideServer
    \/ \E d \in Deltas : Tick(d) /\ UNCHANGED besideServer

FieldSpec == Init /\ [][FieldNext]_vars

SafeNext ==
    \/ SafeOnce /\ UNCHANGED besideSafe
    \/ SafeTwice /\ UNCHANGED besideSafe

SafeInit == SafeStart /\ ServerIdle /\ FormIdle /\ DebIdle /\ TwinIdle

SafeSpec == SafeInit /\ [][SafeNext]_vars

\* runs of the lead form
FormInit == FormIdle /\ ServerIdle /\ SafeIdle /\ DebIdle /\ TwinIdle

FormSpec == FormInit /\ [][FormNext]_vars

\* runs of a debounced function
DebInit == DebIdle /\ ServerIdle /\ SafeIdle /\ FormIdle /\ TwinIdle

DebSpec == DebInit /\ [][DebNext]_vars

\* runs of the two variants side by side
TwinInit == TwinBegin /\ ServerIdle /\ SafeIdle /\ FormIdle /\ DebIdle

TwinSpec == TwinInit /\ [][TwinNext]_vars

\* ------------------------------------------------------------ properties
IsPrefix(a, b) == Len(a) <= Len(b) /\ SubSeq(b, 1, Len(a)) = a

LinesOf(r)     == {i \in 1..Len(file) : file[i].rid = r}
InFlight(r)    == \E p \in pending : p.rid = r
Reached(gate)  == gate \in {"admit", "reject"}       \* the limiter decided
Answered(r)    == log[r].sent # <<>>
TooFast        == <<Sent(JsonErr(429, TooFastMsg), "limiter")>>

\* the earlier admitted requests of the identifier of request j
AdmittedBefore(j) ==
    {i \in 1..(j - 1) : log[i].gate = "admit" /\ log[i].cid = log[j].cid}

\* a required field that is absent, null or the empty string
MissingOrEmpty(body) ==
    \E f \in RequiredFields :
        \/ body[f].t \in {"undef", "null"}
        \/ body[f].t = "str" /\ body[f].s = <<>>

IsLeadPost(req) == req.method = "POST" /\ req.path = PathLead

\* C1: once a request of an identifier was admitted at time t, a later request
\* of that identifier less than 3000 ms after t is answered 429 and adds no
\* record to the file, and one that comes 3000 ms or more after the
\* identifier's admissions is admitted.
C1_ThrottleWindow ==
    \A j \in 1..Len(log) :
        Reached(log[j].gate) =>
            LET prev == AdmittedBefore(j)
            IN  /\ (\E i \in prev : log[j].at - log[i].at < RATE_WINDOW) =>
                      /\ log[j].gate = "reject"
                      /\ log[j].sent = TooFast
                      /\ LinesOf(j) = {}
                      /\ ~InFlight(j)
                /\ (prev # {} /\ \A i \in prev : log[j].at - log[i].at >= RATE_WINDOW) =>
                      log[j].gate = "admit"

C1_Witness ==
    \E j \in 1..Len(log) :
        /\ log[j].gate = "reject"
        /\ \E i \in AdmittedBefore(j) : log[j].at - log[i].at = RATE_WINDOW - 1

\* C2: the limiter admits a request of an identifier that has no entry in the
\* map, whatever the clock shows, and a request of an identifier whose entry
\* is last exactly when now - last >= 3000.
C2_AdmitRule ==
    \A j \in 1..Len(log) :
        Reached(log[j].gate) =>
            IF log[j].prior = NoEntry
            THEN log[j].gate = "admit"
            ELSE log[j].gate = "admit" <=> log[j].at - log[j].prior >= RATE_WINDOW

\* C3: a rejected request is answered 429 with the throttle message, leaves
\* the limiter map as it was and never reaches the /api/lead handler.
C3_RejectFrame ==
    [][ (Len(log') = Len(log) + 1 /\ log'[Len(log')].gate = "reject") =>
            /\ log'[Len(log')].sent = TooFast
            /\ lastHitByIp' = lastHitByIp
            /\ pending' = pending
            /\ file' = file
            /\ dirExists' = dirExists ]_vars

C3_Witness ==
    \E j \in 1..Len(log) :
        /\ log[j].gate = "reject"
        /\ log[j].prior # NoEntry
        /\ lastHitByIp[log[j].cid] = log[j].prior

\* C4: an admitted POST /api/lead in which a required field is missing or
\* empty is answered 400 with the "Uzupelnij" message and writes nothing.
C4_MissingField ==
    (/\ done.rid # 0
     /\ IsLeadPost(done.req)
     /\ log[done.rid].gate = "admit"
     /\ MissingOrEmpty(done.req.body))
        => /\ log[done.rid].sent = <<Sent(JsonErr(400, MissingMsg), "missing")>>
           /\ log[done.rid].fs = "none"
           /\ LinesOf(done.rid) = {}
           /\ ~InFlight(done.rid)

C4_Witness ==
    /\ done.rid # 0
    /\ IsLeadPost(done.req)
    /\ log[done.rid].gate = "admit"
    /\ done.req.body # EmptyBody
    /\ done.req.body.message = JNull
    /\ log[done.rid].sent[1].resp.status = 400

\* C5: an admitted valid submission whose append succeeds is answered
\* 200 {ok:true}; the 200 is sent only when the record is in the file, and the
\* request has exactly one line in the file.
C5_StoredOnce ==
    /\ \A j \in 1..Len(log) :
          /\ log[j].fs = "written" =>
                /\ Cardinality(LinesOf(j)) = 1
                /\ \/ InFlight(j) /\ ~Answered(j)
                   \/ log[j].sent = <<Sent(JsonOk, "stored")>>
          /\ (\E k \in 1..Len(log[j].sent) : log[j].sent[k].resp.status = 200
                                                /\ log[j].sent[k].resp.ok = "true")
                => log[j].fs = "written" /\ LinesOf(j) # {}
          /\ log[j].fs # "written" => LinesOf(j) = {}
    /\ (/\ done.rid # 0
        /\ IsLeadPost(done.req)
        /\ log[done.rid].gate = "admit"
        /\ ~MissingOrEmpty(done.req.body)
        /\ log[done.rid].fs = "written")
           => log[done.rid].sent = <<Sent(JsonOk, "stored")>>

C5_Witness ==
    /\ done.rid # 0
    /\ IsLeadPost(done.req)
    /\ log[done.rid].gate = "admit"
    /\ log[done.rid].sent = <<Sent(JsonOk, "stored")>>
    /\ Cardinality(LinesOf(done.rid)) = 1
    /\ Len(file) = 2

\* C6: every record in the lead file satisfies the data model: industry,
\* problem, message and contact are non-empty, and no field is longer than
\* its maximum.
C6_RecordConstraints ==
    \A i \in 1..Len(file) :
        LET r == file[i].lead
        IN  /\ r.industry # <<>> /\ Len(r.industry) <= MAX_INDUSTRY
            /\ r.problem # <<>>  /\ Len(r.problem) <= MAX_PROBLEM
            /\ r.message # <<>>  /\ Len(r.message) <= MAX_MESSAGE
            /\ r.contact # <<>>  /\ Len(r.contact) <= MAX_CONTACT
            /\ Len(r.tools) <= MAX_TOOLS
            /\ Len(r.website) <= MAX_WEBSITE

\* C7: when the append of a request fails, the request is answered 500 with
\* the server-error message and nothing else, and its record is never written.
C7_AppendFailure ==
    \A j \in 1..Len(log) :
        log[j].fs = "failed" =>
            /\ LinesOf(j) = {}
            /\ \/ InFlight(j) /\ ~Answered(j)
               \/ ~InFlight(j) /\ log[j].sent = <<Sent(JsonErr(500, ServerErrMsg), "append")>>

C7_Witness ==
    \E j \in 1..Len(log) :
        /\ log[j].fs = "failed"
        /\ ~InFlight(j)
        /\ log[j].sent[1].resp.status = 500
        /\ Len(log) > j

\* C8: every non-2xx response to a request for /api/lead is JSON of the shape
\* {ok:false, error:<string>}, whatever the cause.
C8_ErrorShape ==
    (done.rid # 0 /\ done.req.path = PathLead) =>
        \A k \in 1..Len(log[done.rid].sent) :
            LET r == log[done.rid].sent[k].resp
            IN  (r.status < 200 \/ r.status > 299) =>
                    r.type = "json" /\ r.ok = "false" /\ r.error # ""

\* C9: the lead file is append-only: every step leaves the lines already
\* written in place.
C9_AppendOnly == [][IsPrefix(file, file')]_vars

C9_Witness == Len(file) = 2 /\ file[1].rid # file[2].rid

\* C10: the sanitizer is idempotent on strings: safe(safe(x, n), n) = safe(x, n).
C10_Idempotent ==
    (spc = "twice" /\ sx.t = "str") => sz = sy

\* the words of s (maximal runs without whitespace) joined by single spaces:
\* of the whitespace only the first character of a run that has a word
\* before it and a word after it is kept, as a space
WordsJoined(s) ==
    LET word == {i \in 1..Len(s) : ~IsSpace(s[i])}
        last == IF word = {} THEN 0 ELSE CHOOSE i \in word : \A j \in word : j <= i
        keep(i) == i \in word \/ ((i - 1) \in word /\ i < last)
        idx  == SelectSeq([i \in 1..Len(s) |-> i], keep)
    IN  [j \in 1..Len(idx) |-> IF idx[j] \in word THEN s[idx[j]] ELSE " "]

\* C11: for every input x and every n >= 0 the result of sanitize(x, n) is at
\* most n characters long and is exactly the first n characters of the input
\* with its whitespace runs collapsed and its ends trimmed (a hard cut).
C11_HardCut ==
    spc \in {"once", "twice"} =>
        LET whole == WordsJoined(ToStr(sx))
        IN  /\ Len(sy) <= sn
            /\ Len(sy) = Min(sn, Len(whole))
            /\ \A i \in 1..Len(sy) : sy[i] = whole[i]

C11_Witness ==
    /\ spc = "once"
    /\ sx.t = "str"
    /\ Len(WordsJoined(sx.s)) > sn
    /\ sn > 0
    /\ Len(sy) = sn

\* C12: the result of sanitize(x, n) never begins and never ends with a
\* whitespace character.
C12_NoOuterSpace ==
    (spc \in {"once", "twice"} /\ sy # <<>>) =>
        /\ ~IsSpace(sy[1])
        /\ ~IsSpace(sy[Len(sy)])

\* the half of C12 the code does keep: no leading whitespace
C12_NoLeadingSpace ==
    (spc \in {"once", "twice"} /\ sy # <<>>) => ~IsSpace(sy[1])

\* the request with number r, known while it is in flight and when it was
\* the last one answered
ReqOf(r) ==
    IF done.rid = r THEN done.req
    ELSE IF InFlight(r) THEN (CHOOSE p \in pending : p.rid = r).req
    ELSE NoRequest

OutsideApi(path) ==
    ~(Len(path) >= 5 /\ SubSeq(path, 1, 5) = <<"/", "a", "p", "i", "/">>)

No429(entry) == \A k \in 1..Len(entry.sent) : entry.sent[k].resp.status # 429

\* C13: whatever the limiter map holds, a request whose path does not begin
\* with /api/ leaves the map as it was and is never answered 429, neither on
\* arrival nor later; GET /health is answered 200 with status "running".
C13_OutsideApi ==
    [][ /\ \A j \in 1..Len(log') :
               (ReqOf(j)' # NoRequest /\ OutsideApi(ReqOf(j)'.path)) => No429(log'[j])
        /\ \A r \in 1..Len(log') :
               (nreq' = nreq + 1 /\ r = nreq' /\ OutsideApi(ReqOf(r)'.path)) =>
                   /\ lastHitByIp' = lastHitByIp
                   /\ (ReqOf(r)'.method = "GET" /\ ReqOf(r)'.path = PathHealth) =>
                          /\ Len(log'[r].sent) = 1
                          /\ log'[r].sent[1].resp.status = 200
                          /\ log'[r].sent[1].resp.state = "running"
      ]_vars

\* GET /health answered inside the window of an identifier admitted before
C13_Witness ==
    /\ done.rid > 1
    /\ done.req.method = "GET" /\ done.req.path = PathHealth
    /\ log[done.rid].sent = <<Sent(HealthResp, "health")>>
    /\ \E ip \in DOMAIN lastHitByIp :
           /\ lastHitByIp[ip] > 0
           /\ log[done.rid].at - lastHitByIp[ip] < RATE_WINDOW

TerminalStatuses == {429, 400, 500, 200}

\* C14: every POST /api/lead request gets exactly one terminal response, with
\* status 429, 400, 500 or 200; until it is answered it is in flight, and it
\* is never answered twice.
C14_OneTerminalResponse ==
    \A j \in 1..Len(log) :
        /\ Len(log[j].sent) <= 1
        /\ ~Answered(j) => InFlight(j)
        /\ (Answered(j) /\ IsLeadPost(ReqOf(j))) =>
               log[j].sent[1].resp.status \in TerminalStatuses

\* the parts of C14 that hold: at most one response, none lost, and with a
\* callback that fires every request is answered in the end
C14_AtMostOnce ==
    \A j \in 1..Len(log) : Len(log[j].sent) <= 1 /\ (~Answered(j) => InFlight(j))

C14_EventuallyAnswered ==
    \A r \in 1..(MaxReqs + 1) : (nreq >= r) ~> (nreq >= r /\ Answered(r))

StringFields == {"id", "industry", "problem", "tools", "message", "contact", "website"}
Stored200    == {r \in 1..Len(log) : log[r].sent = <<Sent(JsonOk, "stored")>>}
HasLineFeed(s) == \E k \in 1..Len(s) : s[k] = "\n"

\* C15: with several admitted requests in flight at once and their appends
\* completing in any order, the file holds whole records only, one per line:
\* every line is the record of exactly one request, unchanged and free of
\* line feeds, no request has two lines, and once nothing is in flight the
\* number of lines is the number of 200 responses.
C15_WholeLines ==
    /\ \A i \in 1..Len(file) :
           LET r == file[i].rid
           IN  /\ r \in 1..Len(log)
               /\ log[r].gate \in {"admit", "bypass"}
               /\ log[r].fs = "written"
               /\ \A f \in StringFields : ~HasLineFeed(file[i].lead[f])
               /\ ReqOf(r) # NoRequest =>
                      \E rnd \in Rands :
                          file[i].lead = BuildLead(ReqOf(r).body, rnd, log[r].at)
               /\ \A k \in 1..Len(file) : file[k].rid = r => k = i
    /\ Len(file) = Cardinality(Stored200)
                     + Cardinality({p \in pending : p.result = "written"})
    /\ pending = {} => Len(file) = Cardinality(Stored200)

\* two clients in flight together, the later request written first
C15_Witness ==
    /\ pending = {}
    /\ Len(file) = 2
    /\ file[1].rid = 2 /\ file[2].rid = 1
    /\ log[1].cid # log[2].cid
    /\ Stored200 = {1, 2}

\* request j of an identifier arrived while an earlier admitted request i of
\* the same identifier was still in flight, less than the window after it
RacedWith(i, j) ==
    /\ i < j
    /\ log[i].gate = "admit" /\ Reached(log[j].gate)
    /\ log[i].cid = log[j].cid
    /\ log[j].at - log[i].at < RATE_WINDOW
    /\ InFlight(i)

\* C16 as stated: of two requests of one identifier in flight together and
\* less than 3000 ms apart, the second is admitted like the first (it read the
\* timestamp before the first one's update).
C16_BothAdmitted ==
    \A i, j \in 1..Len(log) : RacedWith(i, j) => log[j].gate = "admit"

\* C16 amended: the limiter reads and updates the timestamp in one
\* synchronous step, so of two requests of one identifier less than 3000 ms
\* apart at most one is admitted, also while the first is still in flight.
C16_NoDoubleAdmit ==
    \A i, j \in 1..Len(log) :
        (i < j /\ log[i].gate = "admit" /\ log[j].gate = "admit"
               /\ log[i].cid = log[j].cid)
            => log[j].at - log[i].at >= RATE_WINDOW

C16_Witness ==
    \E i, j \in 1..Len(log) :
        /\ RacedWith(i, j)
        /\ log[j].gate = "reject"
        /\ log[j].sent = TooFast
        /\ log[j].prior = log[i].at

\* C17: no two records of the file have the same id, and every id is "lead_"
\* followed by the hexadecimal digits of the random draw and of the time of
\* the request, whatever the draws and the clock readings are.
C17_UniqueIds ==
    /\ \A i, k \in 1..Len(file) : i # k => file[i].lead.id # file[k].lead.id
    /\ \A i \in 1..Len(file) :
           \E rnd \in Rands :
               file[i].lead.id = <<"l", "e", "a", "d", "_">> \o rnd
                                     \o NumToString(log[file[i].rid].at, 16)

\* the format alone
C17_IdFormat ==
    \A i \in 1..Len(file) :
        \E rnd \in Rands :
            file[i].lead.id = <<"l", "e", "a", "d", "_">> \o rnd
                                  \o NumToString(log[file[i].rid].at, 16)

\* every required field is present and its string form is not empty
PresentNonEmpty(body) ==
    \A f \in RequiredFields : body[f].t # "undef" /\ ToStr(body[f]) # <<>>

MissingAnswer == <<Sent(JsonErr(400, MissingMsg), "missing")>>

\* C18: an admitted POST /api/lead passes the required-field check exactly
\* when industry, problem, message and contact are each present and non-empty
\* after coercion to string, whatever JSON value each one is; every other
\* admitted request is answered 400.
C18_RequiredAfterCoercion ==
    \A j \in 1..Len(log) :
        (ReqOf(j) # NoRequest /\ IsLeadPost(ReqOf(j)) /\ log[j].gate = "admit") =>
            (log[j].sent = MissingAnswer <=> ~PresentNonEmpty(ReqOf(j).body))

\* what the code does: a field passes exactly when it is truthy
C18_RequiredTruthy ==
    \A j \in 1..Len(log) :
        (ReqOf(j) # NoRequest /\ IsLeadPost(ReqOf(j)) /\ log[j].gate = "admit") =>
            (log[j].sent = MissingAnswer <=>
                 \E f \in RequiredFields :
                     \/ ReqOf(j).body[f].t \in {"undef", "null"}
                     \/ ReqOf(j).body[f].t = "str" /\ ReqOf(j).body[f].s = <<>>
                     \/ ReqOf(j).body[f].t \in {"num", "bool"} /\ ReqOf(j).body[f].n = 0)

MaxOf ==
    [industry |-> MAX_INDUSTRY, problem |-> MAX_PROBLEM, tools |-> MAX_TOOLS,
     message |-> MAX_MESSAGE, contact |-> MAX_CONTACT, website |-> MAX_WEBSITE]

\* the lines written or about to be written, each with its request
LinesWithRequest ==
    {[lead |-> p.line.lead, body |-> p.req.body] : p \in pending}
        \cup {[lead |-> file[i].lead, body |-> ReqOf(file[i].rid).body] :
                 i \in {k \in 1..Len(file) : ReqOf(file[k].rid) # NoRequest}}

Defaults(l) ==
    /\ \A f \in {"tools", "website"} :
           l.body[f].t \in {"undef", "null"} => l.lead[f] = <<>>
    /\ \A f \in {"wantsMvp", "wantsAutomation"} :
           l.body[f].t = "undef" => l.lead[f] = FALSE

\* C19 as stated: every string field of the stored record is the submitted
\* value with its whitespace runs collapsed to one space and its ends
\* trimmed; absent or null tools and website are stored as "", absent
\* wantsMvp and wantsAutomation as false.
C19_Normalised ==
    \A l \in LinesWithRequest :
        /\ \A f \in DOMAIN MaxOf : l.lead[f] = WordsJoined(ToStr(l.body[f]))
        /\ Defaults(l)

\* C19 amended: ... collapsed, trimmed and then cut to the maximum length of
\* the field.
C19_NormalisedAndCut ==
    \A l \in LinesWithRequest :
        /\ \A f \in DOMAIN MaxOf :
               LET whole == WordsJoined(ToStr(l.body[f]))
               IN  /\ Len(l.lead[f]) = Min(MaxOf[f], Len(whole))
                   /\ \A i \in 1..Len(l.lead[f]) : l.lead[f][i] = whole[i]
        /\ Defaults(l)

C19_Witness ==
    /\ done.rid # 0
    /\ done.req.body = ValidBody
    /\ log[done.rid].sent = <<Sent(JsonOk, "stored")>>
    /\ \E i \in LinesOf(done.rid) :
           /\ file[i].lead.industry = <<"a", " ", "b">>
           /\ file[i].lead.message = <<"m", " ", "m">>
           /\ file[i].lead.tools = <<>>
           /\ file[i].lead.wantsMvp = FALSE

\* e without the whitespace at its two ends
Stripped(e) ==
    CHOOSE t \in {SubSeq(e, lo, hi) : lo \in 1..(Len(e) + 1), hi \in 0..Len(e)} :
        /\ t = <<>> \/ (~IsSpace(t[1]) /\ ~IsSpace(t[Len(t)]))
        /\ \E a, b \in 0..Len(e) :
               /\ a + Len(t) + b = Len(e)
               /\ \A i \in 1..a : IsSpace(e[i])
               /\ \A i \in (Len(e) - b + 1)..Len(e) : IsSpace(e[i])
               /\ \A i \in 1..Len(t) : t[i] = e[a + i]

\* the part of a header value in front of its first comma
FirstEntry(h) ==
    SubSeq(h, 1, CHOOSE n \in 0..Len(h) :
                     /\ \A i \in 1..n : h[i] # ","
                     /\ n = Len(h) \/ h[n + 1] = ",")

ExpectedId(req) ==
    IF req.xff.t = "str" /\ Stripped(FirstEntry(req.xff.s)) # <<>>
    THEN Stripped(FirstEntry(req.xff.s))
    ELSE IF req.remote.t = "str" /\ req.remote.s # <<>> THEN req.remote.s
    ELSE <<"u", "n", "k", "n", "o", "w", "n">>

\* C20: the client identifier of a request is the first comma-separated entry
\* of X-Forwarded-For, trimmed, when that entry is not empty, otherwise the
\* socket's remote address when set, otherwise "unknown"; requests with the
\* same identifier share one entry of the limiter map: each sees the time of
\* the identifier's latest admission, and the map has one key per identifier.
C20_ClientIdentifier ==
    /\ \A j \in 1..Len(log) :
           Reached(log[j].gate) =>
               /\ ReqOf(j) # NoRequest => log[j].cid = ExpectedId(ReqOf(j))
               /\ log[j].prior =
                      IF AdmittedBefore(j) = {} THEN NoEntry
                      ELSE log[CHOOSE i \in AdmittedBefore(j) :
                                   \A k \in AdmittedBefore(j) : k <= i].at
    /\ DOMAIN lastHitByIp = {log[i].cid : i \in {k \in 1..Len(log) : log[k].gate = "admit"}}

\* a request with an empty first header entry is throttled by the entry of a
\* request without the header that came over the same socket address
C20_Witness ==
    \E p \in pending :
        /\ p.req.xff.t = "undef"
        /\ log[p.rid].gate = "admit"
        /\ done.rid > p.rid
        /\ done.req.xff = Fallback.xff
        /\ log[done.rid].cid = log[p.rid].cid
        /\ log[done.rid].prior = log[p.rid].at
        /\ log[done.rid].sent = TooFast

\* C21: no step removes an entry of the limiter map, and (the clock never
\* going back) no step lowers the time stored for an identifier.
C21_MapGrows ==
    [][ /\ DOMAIN lastHitByIp \subseteq DOMAIN lastHitByIp'
        /\ \A ip \in DOMAIN lastHitByIp : lastHitByIp'[ip] >= lastHitByIp[ip]
      ]_vars

\* an identifier admitted twice, its entry raised to the later time
C21_Witness ==
    /\ lastHitByIp # <<>>
    /\ \E i, j \in 1..Len(log) :
           /\ i < j
           /\ log[i].gate = "admit" /\ log[j].gate = "admit"
           /\ log[i].cid = log[j].cid
           /\ log[j].prior = log[i].at
           /\ lastHitByIp[log[j].cid] = log[j].at
           /\ log[j].at > log[i].at

\* the submissions that the step ends
EndedBy(f, g) == {s.id : s \in f.subs} \ {s.id : s \in g.subs}

\* C22: for every submission of the lead form the submit control is disabled
\* when the request is sent, and it is enabled when that submission
\* completes, whether with a 2xx response, another response or a rejected
\* fetch.
C22_DisabledThenEnabled ==
    [][ /\ form'.nsub = form.nsub + 1 =>
               /\ form'.disabled
               /\ \E s \in form'.subs : s.id = form'.nsub /\ s.pc = "fetch"
        /\ EndedBy(form, form') # {} =>
               /\ ~form'.disabled
               /\ form'.label = SubmitLabel
      ]_vars

\* a submission ended by a rejected fetch, the control enabled again
C22_Witness ==
    /\ form.event.kind = "failed"
    /\ form.subs = {}
    /\ ~form.disabled

\* the step ended a submission without a 2xx response
EndedInFailure(f, g) ==
    /\ EndedBy(f, g) # {}
    /\ \/ g.event.kind = "failed"
       \/ g.event.kind = "ended" /\ ~(g.event.resp.status \in 200..299)

\* C23: when a submission ends with a non-2xx response or a network failure
\* the fields keep their content, the status region has the error style and
\* shows the error text of the response, or a generic message when the
\* response has none (or there is no response).
C23_FailureShown ==
    [][ EndedInFailure(form, form') =>
            LET sent == form'.event.resp.body
            IN  /\ form'.fields = form.fields
                /\ form'.cls = "form-status error"
                /\ Len(form'.text) = 2
                /\ form'.text[1] = ErrorPrefix
                /\ IF form'.event.kind = "ended" /\ sent.kind = "json" /\ sent.error # ""
                   THEN form'.text[2] = sent.error
                   ELSE form'.text[2] \in {GenericMsg, LaterMsg, FetchFailed}
      ]_vars

\* a 429 has ended a submission: its text is shown, the fields are kept
C23_Witness ==
    /\ form.event.kind = "ended"
    /\ form.event.resp = Response(429, JsonBody(TooFastMsg))
    /\ form.text = <<ErrorPrefix, TooFastMsg>>
    /\ form.cls = "form-status error"
    /\ form.fields = "filled"

\* the step ended a submission with a 2xx response
EndedInSuccess(f, g) ==
    /\ EndedBy(f, g) # {}
    /\ g.event.kind = "ended"
    /\ g.event.resp.status \in 200..299

\* C24, first half: the form is cleared exactly by the end of a submission
\* with a 2xx response, which shows the confirmation without the error style.
C24_ClearedOnSuccess ==
    [][ /\ (form.fields = "filled" /\ form'.fields = "empty") => EndedInSuccess(form, form')
        /\ EndedInSuccess(form, form') =>
               /\ form'.fields = "empty"
               /\ form'.text = <<ConfirmText>>
               /\ form'.cls = "form-status"
        /\ form'.nsub = form.nsub + 1 => form'.text = <<>>
      ]_vars

\* C24: the form is cleared exactly when a submission ends with a 2xx
\* response, which shows the confirmation without the error style; the status
\* region is emptied when a submission starts, and while a submission is in
\* flight it never shows the message of an earlier one.
C24_NoStaleMessage ==
    [][ /\ (form.fields = "filled" /\ form'.fields = "empty") => EndedInSuccess(form, form')
        /\ EndedInSuccess(form, form') =>
               /\ form'.fields = "empty"
               /\ form'.text = <<ConfirmText>>
               /\ form'.cls = "form-status"
        /\ form'.nsub = form.nsub + 1 => form'.text = <<>>
        /\ \A s \in form'.subs :
               form'.text = <<>> \/ form'.shown > s.id
      ]_vars

\* C25: a response whose body is not JSON is handled like an empty object:
\* the status alone decides (2xx: the form is cleared and the confirmation
\* shown; otherwise the error style with the generic message), the
\* submission ends and the control is enabled.
C25_UnparsableBody ==
    [][ \A s \in form.subs :
            (s.pc = "json" /\ s.resp.body.kind = "html" /\ s.id \in EndedBy(form, form')) =>
                /\ form'.event = FormEvent("ended", s.id, s.resp)
                /\ ~form'.disabled
                /\ IF s.resp.status \in 200..299
                   THEN /\ form'.fields = "empty"
                        /\ form'.text = <<ConfirmText>>
                        /\ form'.cls = "form-status"
                   ELSE /\ form'.fields = form.fields
                        /\ form'.text = <<ErrorPrefix, GenericMsg>>
                        /\ form'.cls = "form-status error"
      ]_vars

\* a 200 whose body is a page, taken as success
C25_Witness ==
    /\ form.event = FormEvent("ended", form.event.id, Response(200, HtmlBody))
    /\ form.text = <<ConfirmText>>
    /\ form.fields = "empty"
    /\ ~form.disabled

\* C28: the submit control is disabled whenever a lead request of the page is
\* in flight, also when a second submit event was handled before the first
\* submission completed.
C28_DisabledWhileInFlight ==
    form.subs # {} => form.disabled

\* how an admitted request ended without being stored
EndedUnstored(j) ==
    /\ log[j].gate = "admit"
    /\ Answered(j)
    /\ log[j].sent[1].resp.status \in {400, 500}

\* C26: the limiter decides before the required-field check and the route do,
\* and independently of them: a request it rejects is answered 429 and
\* nothing else happens for it, whatever its body; a request it admits, of
\* any method and any /api/ path, has its time recorded on arrival whatever
\* becomes of it; so a request of the same identifier less than 3000 ms after
\* an admitted one that ended in 400 or 500 is answered 429 and not stored.
C26_LimiterFirst ==
    [][ /\ \A j \in 1..Len(log') :
               log'[j].gate = "reject" =>
                   /\ log'[j].sent = TooFast
                   /\ log'[j].fs = "none"
                   /\ \A i \in 1..Len(file') : file'[i].rid # j
        /\ (nreq' = nreq + 1 /\ log'[nreq'].gate = "admit") =>
               /\ log'[nreq'].cid \in DOMAIN lastHitByIp'
               /\ lastHitByIp'[log'[nreq'].cid] = clock
        /\ \A i, j \in 1..Len(log') :
               (/\ i < j
                /\ log'[i].gate = "admit"
                /\ Reached(log'[j].gate)
                /\ log'[i].cid = log'[j].cid
                /\ log'[j].at - log'[i].at < RATE_WINDOW)
                   => log'[j].gate = "reject"
      ]_vars

\* a valid submission rejected less than 3000 ms after a request of the
\* same identifier that was admitted and answered 400
C26_Witness ==
    \E i \in 1..Len(log) :
        /\ i < done.rid
        /\ EndedUnstored(i)
        /\ log[i].sent[1].cause = "missing"
        /\ log[i].cid = log[done.rid].cid
        /\ log[done.rid].at - log[i].at < RATE_WINDOW
        /\ IsLeadPost(done.req) /\ done.req.body = ValidBody
        /\ log[done.rid].sent = TooFast
        /\ file = <<>>

\* the decisions a limiter makes that sees nothing but the arrival times ts
\* of one identifier: the time it holds after the first k of them, and its
\* decision on the k-th
RECURSIVE OwnLast(_, _)
OwnLast(ts, k) ==
    IF k = 0 THEN 0
    ELSE LET last == OwnLast(ts, k - 1)
         IN  IF ts[k] - last < RATE_WINDOW THEN last ELSE ts[k]
OwnDecision(ts, k) ==
    IF ts[k] - OwnLast(ts, k - 1) < RATE_WINDOW THEN "reject" ELSE "admit"

\* the arrival times of the requests of the identifier of request j, up to j
OwnTimes(j) ==
    LET own == SelectSeq([i \in 1..j |-> i],
                         LAMBDA i : Reached(log[i].gate) /\ log[i].cid = log[j].cid)
    IN  [k \in 1..Len(own) |-> log[own[k]].at]

\* C27: the decision on a request is a function of the arrival times of the
\* requests of its own identifier alone, so two runs that agree on the
\* requests of an identifier and differ in the requests of others decide
\* its requests alike.
C27_OwnHistoryOnly ==
    \A j \in 1..Len(log) :
        Reached(log[j].gate) =>
            log[j].gate = OwnDecision(OwnTimes(j), Len(OwnTimes(j)))

\* two requests over one socket with different first entries of
\* X-Forwarded-For, both admitted less than 3000 ms apart
C27_Witness ==
    \E p, q \in pending :
        /\ p.rid < q.rid
        /\ p.req.remote = q.req.remote
        /\ p.req.xff # q.req.xff
        /\ log[p.rid].cid # log[q.rid].cid
        /\ log[p.rid].gate = "admit" /\ log[q.rid].gate = "admit"
        /\ log[q.rid].at - log[p.rid].at < RATE_WINDOW

\* C29: fn runs only when the delay has passed since the most recent call of
\* the wrapper, for the timer of that call and with its arguments, at most
\* once per call, and never after cancel() unless the wrapper was called
\* again; after cancel() no timer of the wrapper is left.
C29_Debounce ==
    /\ \A k \in 1..Len(deb.runs) :
           LET r == deb.runs[k]
           IN  /\ r.call = r.latest
               /\ r.args = r.latestArgs
               /\ r.at - r.latestAt >= DEBOUNCE_DELAY
               /\ ~r.cancelled
               /\ \A m \in 1..Len(deb.runs) : deb.runs[m].call = r.call => m = k
    /\ deb.cancelled => deb.timers = {}

\* the first call superseded by the second, the second run after the delay,
\* the third cancelled and its delay over without a run
C29_Witness ==
    /\ deb.calls = 3
    /\ Len(deb.runs) = 1
    /\ deb.runs[1].call = 2
    /\ deb.runs[1].at < deb.lastAt + DEBOUNCE_DELAY
    /\ deb.cancelled
    /\ deb.now - deb.lastAt >= DEBOUNCE_DELAY

TypeOK == nreq \in 0..Max(MaxReqs, MaxWide)
====
